---------------------------- MODULE Spec2Model ----------------------------
(***************************************************************************)
(* A model of the two icon-generation scripts of the Dragonbane Arcane     *)
(* Expansion module:                                                       *)
(*                                                                         *)
(*   generate-icons-db    (src/unnamed/part_002)                           *)
(*   generate-proof-icons (src/tools/generate-proof-icons.mjs)             *)
(*                                                                         *)
(* Strings of the program are TLA+ strings; an optional field of a JSON    *)
(* object is a sequence of length 0 (absent) or 1 (present).               *)
(***************************************************************************)
EXTENDS Naturals, Sequences, FiniteSets, TLC

VARIABLES
  doc,        \* SpecClassify: the record handed to the classifier
  out,        \* SpecClassify: what isSpell/detectItemCategory/buildPrompt returned
  text,       \* SpecPack: the content of the data file on disk
  original,   \* SpecPack: its content before the run (history variable)
  step,       \* SpecPack: "start", "loaded", "failed" (load threw) or "saved"
  loaded,     \* SpecPack: what loadPackDocs returned for it
  env,        \* process.env as read at start-up: LIMIT, OVERWRITE, DRYRUN
  manifest,   \* module.json in the repository root
  packs,      \* packs/: [exists, files], files a function from name to content
  dirs,       \* the directories that exist under icons/generated
  icons,      \* the icon files that exist on disk (paths from the root)
  pc,         \* where the script is: "idle", "start", "load", "loop", "await", "exit"
  main,       \* locals of main(): moduleId, packFiles, f, totals, exit status
  pack,       \* locals of processPackFile(): docs, format, i, processed, changed
  phase,      \* "run": the first run; "rerun": the run after an aborted one
  hist,       \* history: what each run did (calls, writes, mkdirs, saves)
  proof       \* generate-proof-icons: where it is and its locals

classifyVars == <<doc, out>>
packVars == <<text, original, step, loaded>>
diskVars == <<manifest, packs, dirs, icons>>
dbVars == <<env, manifest, packs, dirs, icons, pc, main, pack, phase, hist>>
vars == <<doc, out, text, original, step, loaded,
          env, manifest, packs, dirs, icons, pc, main, pack, phase, hist, proof>>

(***************************************************************************)
(* String helpers (JavaScript String methods used by the scripts).         *)
(***************************************************************************)
Upper == "ABCDEFGHIJKLMNOPQRSTUVWXYZ"
Lower == "abcdefghijklmnopqrstuvwxyz"
Digits == "0123456789"
WhiteSpace == {" ", "\t", "\n", "\r"}

CharAt(s, i) == SubSeq(s, i, i)

CharIn(c, alphabet) == \E i \in 1..Len(alphabet) : CharAt(alphabet, i) = c

LowerChar(c) ==
  IF CharIn(c, Upper)
    THEN CharAt(Lower, CHOOSE i \in 1..Len(Upper) : CharAt(Upper, i) = c)
    ELSE c

RECURSIVE toLowerCase(_)
toLowerCase(s) ==
  IF s = "" THEN ""
  ELSE LowerChar(CharAt(s, 1)) \o toLowerCase(SubSeq(s, 2, Len(s)))

RECURSIVE TrimStart(_)
TrimStart(s) ==
  IF s = "" THEN ""
  ELSE IF CharAt(s, 1) \in WhiteSpace THEN TrimStart(SubSeq(s, 2, Len(s)))
  ELSE s

RECURSIVE TrimEnd(_)
TrimEnd(s) ==
  IF s = "" THEN ""
  ELSE IF CharAt(s, Len(s)) \in WhiteSpace THEN TrimEnd(SubSeq(s, 1, Len(s) - 1))
  ELSE s

trim(s) == TrimEnd(TrimStart(s))

\* String.prototype.includes / an unanchored literal regex alternative
includes(s, kw) ==
  \E i \in 1..(Len(s) + 1) :
    /\ i + Len(kw) - 1 <= Len(s)
    /\ SubSeq(s, i, i + Len(kw) - 1) = kw

\* /k1|k2|.../.test(s) for literal alternatives
test(alternatives, s) == \E kw \in alternatives : includes(s, kw)

RECURSIVE join(_, _)
join(parts, sep) ==
  IF parts = <<>> THEN ""
  ELSE IF Len(parts) = 1 THEN parts[1]
  ELSE parts[1] \o sep \o join(Tail(parts), sep)

\* The strings the records of SpecDb and SpecProof are made of, and their
\* lower-case forms computed once: Lowered(s) is toLowerCase(s)
RunStrings == {"", "weapon", "Spell", "spell", "Long Sword", " Acid Splash",
               "items.db", "spells.db", "cantrips.db", "notes.txt"}

lowered == [s \in RunStrings |-> toLowerCase(s)]

Lowered(s) == IF s \in RunStrings THEN lowered[s] ELSE toLowerCase(s)

\* x ?? d  for an optional field
OrElse(opt, d) == IF opt = <<>> THEN d ELSE opt[1]

(***************************************************************************)
(* generate-icons-db: classification and prompt                            *)
(***************************************************************************)
isSpell(d) == Lowered(OrElse(d.type, "")) = "spell"

KnownSubtypes ==
  {"weapon", "armor", "shield", "cloak", "robe", "boots", "helm", "helmet",
   "ring", "amulet", "staff", "wand"}

WeaponWords == {"sword", "blade", "dagger", "axe", "hammer", "mace", "spear",
                "bow", "crossbow", "flail", "halberd"}
ShieldWords == {"shield", "buckler"}
ArmorWords  == {"armor", "breastplate", "cuirass", "chainmail", "mail", "plate",
                "hauberk"}
HelmetWords == {"helm", "helmet", "hood"}
CloakWords  == {"cloak", "cape", "mantle"}
RobeWords   == {"robe", "vestment", "tunic"}
BootsWords  == {"boots", "shoes", "greaves"}
GlovesWords == {"gloves", "gauntlets"}
RingWords   == {"ring"}
AmuletWords == {"amulet", "pendant", "necklace"}
StaffWords  == {"staff"}
WandWords   == {"wand"}
BookWords   == {"tome", "grimoire", "book"}
ScrollWords == {"scroll"}
PotionWords == {"potion", "elixir", "vial"}

\* NameCategory with the armor test moved in front of the shield test
NameCategory_ArmorFirst(n) ==
  IF test(WeaponWords, n) THEN "weapon"
  ELSE IF test(ArmorWords, n) THEN "armor"
  ELSE IF test(ShieldWords, n) THEN "shield"
  ELSE IF test(HelmetWords, n) THEN "helmet"
  ELSE IF test(CloakWords, n) THEN "cloak"
  ELSE IF test(RobeWords, n) THEN "robe"
  ELSE IF test(BootsWords, n) THEN "boots"
  ELSE IF test(GlovesWords, n) THEN "gloves"
  ELSE IF test(RingWords, n) THEN "ring"
  ELSE IF test(AmuletWords, n) THEN "amulet"
  ELSE IF test(StaffWords, n) THEN "staff"
  ELSE IF test(WandWords, n) THEN "wand"
  ELSE IF test(BookWords, n) THEN "book"
  ELSE IF test(ScrollWords, n) THEN "scroll"
  ELSE IF test(PotionWords, n) THEN "potion"
  ELSE "item"

\* the name-based heuristics, in the order of the source
NameCategory(n) ==
  IF test(WeaponWords, n) THEN "weapon"
  ELSE IF test(ShieldWords, n) THEN "shield"
  ELSE IF test(ArmorWords, n) THEN "armor"
  ELSE IF test(HelmetWords, n) THEN "helmet"
  ELSE IF test(CloakWords, n) THEN "cloak"
  ELSE IF test(RobeWords, n) THEN "robe"
  ELSE IF test(BootsWords, n) THEN "boots"
  ELSE IF test(GlovesWords, n) THEN "gloves"
  ELSE IF test(RingWords, n) THEN "ring"
  ELSE IF test(AmuletWords, n) THEN "amulet"
  ELSE IF test(StaffWords, n) THEN "staff"
  ELSE IF test(WandWords, n) THEN "wand"
  ELSE IF test(BookWords, n) THEN "book"
  ELSE IF test(ScrollWords, n) THEN "scroll"
  ELSE IF test(PotionWords, n) THEN "potion"
  ELSE "item"

detectItemCategory(d) ==
  LET n == Lowered(OrElse(d.name, ""))
      t == Lowered(OrElse(d.type, ""))
  IN  IF t # "" /\ t # "spell" /\ t \in KnownSubtypes
        THEN t
        ELSE NameCategory(n)

PromptTail ==
  <<"clean composition, centered subject",
    "NO TEXT, no letters, no numbers, no watermark, no logo">>

buildPrompt(d) ==
  LET name == trim(d.name[1])
  IN  IF isSpell(d)
        THEN join(<<"fantasy spell concept art",
                    "single spell icon on parchment background",
                    "magical spell: " \o name>> \o PromptTail, ", ")
        ELSE LET cat == detectItemCategory(d)
                 label == IF cat = "item" THEN "item" ELSE cat
             IN  join(<<"fantasy " \o label \o " concept art",
                        "single " \o label \o " on parchment background",
                        name>> \o PromptTail, ", ")


(***************************************************************************)
(* File content and JSON.                                                  *)
(*                                                                         *)
(* The content of a data file is a sequence of tokens: the punctuation and *)
(* white space of JSON arrays and of lines, and the text of a JSON object  *)
(* or primitive.  Such a text is [t |-> "json", v, compact]: v is the value *)
(* JSON.parse gives for it and compact says whether the text is exactly    *)
(* what JSON.stringify writes for v (no inner white space, canonical       *)
(* escapes, number forms and key order).                                   *)
(***************************************************************************)
LB    == [t |-> "["]
RB    == [t |-> "]"]
COMMA == [t |-> ","]
NL    == [t |-> "\n"]
CR    == [t |-> "\r"]
SP    == [t |-> " "]

Json(v, compact) == [t |-> "json", v |-> v, compact |-> compact]

IsWs(tok) == tok.t \in WhiteSpace

Arr(items) == [k |-> "arr", items |-> items]

RECURSIVE SkipWs(_)
SkipWs(s) ==
  IF s = <<>> THEN <<>>
  ELSE IF IsWs(Head(s)) THEN SkipWs(Tail(s))
  ELSE s

RECURSIVE DropWsEnd(_)
DropWsEnd(s) ==
  IF s = <<>> THEN <<>>
  ELSE IF IsWs(s[Len(s)]) THEN DropWsEnd(SubSeq(s, 1, Len(s) - 1))
  ELSE s

\* String.prototype.trim on file content
trimText(s) == DropWsEnd(SkipWs(s))

ParseFail == [ok |-> FALSE]

\* the JSON grammar over tokens:  value ::= text | "[" (value ("," value)*)? "]"
RECURSIVE ParseValue(_)
RECURSIVE ParseElements(_, _)
ParseValue(s) ==
  LET r == SkipWs(s)
  IN  IF r = <<>> THEN ParseFail
      ELSE IF Head(r).t = "json" THEN [ok |-> TRUE, v |-> Head(r).v, rest |-> Tail(r)]
      ELSE IF Head(r) = LB
        THEN LET a == SkipWs(Tail(r))
             IN  IF a # <<>> /\ Head(a) = RB
                   THEN [ok |-> TRUE, v |-> Arr(<<>>), rest |-> Tail(a)]
                   ELSE ParseElements(a, <<>>)
      ELSE ParseFail

\* after "[" or ",": a value, then "," and more, or "]"
ParseElements(s, acc) ==
  LET e == ParseValue(s)
  IN  IF ~e.ok THEN ParseFail
      ELSE LET r == SkipWs(e.rest)
           IN  IF r = <<>> THEN ParseFail
               ELSE IF Head(r) = COMMA THEN ParseElements(Tail(r), Append(acc, e.v))
               ELSE IF Head(r) = RB
                 THEN [ok |-> TRUE, v |-> Arr(Append(acc, e.v)), rest |-> Tail(r)]
               ELSE ParseFail

\* JSON.parse: one value and nothing but white space after it
JSONparse(s) ==
  LET r == ParseValue(s)
  IN  IF r.ok /\ SkipWs(r.rest) = <<>> THEN [ok |-> TRUE, v |-> r.v] ELSE ParseFail

\* JSON.stringify(v) and JSON.stringify(v, null, 0): the compact text
RECURSIVE JSONstringify(_)
RECURSIVE StringifyItems(_)
JSONstringify(v) ==
  IF v.k = "arr" THEN <<LB>> \o StringifyItems(v.items) \o <<RB>>
  ELSE <<Json(v, TRUE)>>

StringifyItems(items) ==
  IF items = <<>> THEN <<>>
  ELSE IF Len(items) = 1 THEN JSONstringify(items[1])
  ELSE JSONstringify(items[1]) \o <<COMMA>> \o StringifyItems(Tail(items))

\* String.prototype.split(/\r?\n/): cur is the line being read
RECURSIVE splitLines(_, _)
splitLines(s, cur) ==
  IF s = <<>> THEN <<cur>>
  ELSE IF Head(s) = NL
    THEN LET line == IF cur # <<>> /\ cur[Len(cur)] = CR
                       THEN SubSeq(cur, 1, Len(cur) - 1) ELSE cur
         IN  <<line>> \o splitLines(Tail(s), <<>>)
  ELSE splitLines(Tail(s), Append(cur, Head(s)))

\* .map((l) => l.trim()).filter(Boolean)
RECURSIVE trimmedNonEmpty(_)
trimmedNonEmpty(lines) ==
  IF lines = <<>> THEN <<>>
  ELSE LET l == trimText(Head(lines))
       IN  (IF l = <<>> THEN <<>> ELSE <<l>>) \o trimmedNonEmpty(Tail(lines))

(***************************************************************************)
(* generate-icons-db: loadPackDocs and savePackDocs                        *)
(***************************************************************************)
loadPackDocs(content) ==
  LET raw == trimText(content)
  IN  IF raw = <<>> THEN [ok |-> TRUE, docs |-> <<>>, format |-> "ndjson"]
      ELSE IF Head(raw) = LB
        THEN LET r == JSONparse(raw)
             IN  IF ~r.ok THEN [ok |-> FALSE, error |-> "SyntaxError"]
                 ELSE IF r.v.k # "arr" THEN [ok |-> FALSE, error |-> "Expected array"]
                 ELSE [ok |-> TRUE, docs |-> r.v.items, format |-> "array"]
      ELSE LET lines == trimmedNonEmpty(splitLines(raw, <<>>))
               parsed == [i \in 1..Len(lines) |-> JSONparse(lines[i])]
           IN  IF \E i \in 1..Len(lines) : ~parsed[i].ok
                 THEN [ok |-> FALSE, error |-> "JSON parse failed",
                       line |-> CHOOSE i \in 1..Len(lines) :
                                  /\ ~parsed[i].ok
                                  /\ \A j \in 1..(i - 1) : parsed[j].ok]
                 ELSE [ok |-> TRUE, docs |-> [i \in 1..Len(lines) |-> parsed[i].v],
                       format |-> "ndjson"]

RECURSIVE StringifyLines(_)
StringifyLines(docs) ==
  IF docs = <<>> THEN <<>>
  ELSE IF Len(docs) = 1 THEN JSONstringify(docs[1])
  ELSE JSONstringify(docs[1]) \o <<NL>> \o StringifyLines(Tail(docs))

\* savePackDocs that ignores the detected format and always writes lines
savePackDocs_AlwaysLines(docs, format) ==
  StringifyLines(docs) \o <<NL>>

\* savePackDocs that writes only the entries that are records
savePackDocs_RecordsOnly(docs, format) ==
  LET kept == SelectSeq(docs, LAMBDA d : d.k = "obj" /\ d.name # <<>>)
  IN  IF format = "array"
        THEN JSONstringify(Arr(kept)) \o <<NL>>
        ELSE StringifyLines(kept) \o <<NL>>

\* what savePackDocs writes to the data file
savePackDocs(docs, format) ==
  IF format = "array"
    THEN JSONstringify(Arr(docs)) \o <<NL>>
    ELSE StringifyLines(docs) \o <<NL>>


(***************************************************************************)
(* generate-icons-db: records, icon file names and paths                   *)
(***************************************************************************)
Record(name, type, id, img, system) ==
  [k |-> "obj", name |-> name, type |-> type, id |-> id, img |-> img,
   system |-> system]

Null == [k |-> "null"]

\* doc && typeof doc === "object" && typeof doc.name === "string" && ...
\* (null is falsy, and an array is an object that has no name)
isLikelyDoc(d) ==
  /\ d.k = "obj"
  /\ d.name # <<>>
  /\ Len(trim(d.name[1])) > 0

IsAlnum(c) == CharIn(c, Lower) \/ CharIn(c, Digits)

\* .replace(/['"]/g, "")
RECURSIVE RemoveQuotes(_)
RemoveQuotes(s) ==
  IF s = "" THEN ""
  ELSE (IF CharAt(s, 1) \in {"'", "\""} THEN "" ELSE CharAt(s, 1))
         \o RemoveQuotes(SubSeq(s, 2, Len(s)))

\* .replace(/[^a-z0-9]+/g, "-"): inRun says the previous character was
\* part of the run being replaced
RECURSIVE ReplaceNonAlnumRuns(_, _)
ReplaceNonAlnumRuns(s, inRun) ==
  IF s = "" THEN ""
  ELSE IF IsAlnum(CharAt(s, 1))
    THEN CharAt(s, 1) \o ReplaceNonAlnumRuns(SubSeq(s, 2, Len(s)), FALSE)
  ELSE (IF inRun THEN "" ELSE "-") \o ReplaceNonAlnumRuns(SubSeq(s, 2, Len(s)), TRUE)

\* .replace(/-+/g, "-")
RECURSIVE CollapseDashes(_, _)
CollapseDashes(s, inRun) ==
  IF s = "" THEN ""
  ELSE IF CharAt(s, 1) # "-"
    THEN CharAt(s, 1) \o CollapseDashes(SubSeq(s, 2, Len(s)), FALSE)
  ELSE (IF inRun THEN "" ELSE "-") \o CollapseDashes(SubSeq(s, 2, Len(s)), TRUE)

\* .replace(/^-|-$/g, "")
StripEdgeDashes(s) ==
  LET a == IF s # "" /\ CharAt(s, 1) = "-" THEN SubSeq(s, 2, Len(s)) ELSE s
  IN  IF a # "" /\ CharAt(a, Len(a)) = "-" THEN SubSeq(a, 1, Len(a) - 1) ELSE a

MaxFileNameBase == 120

slice0(s, n) == IF Len(s) <= n THEN s ELSE SubSeq(s, 1, n)

sanitizeFileName(name) ==
  slice0(StripEdgeDashes(CollapseDashes(ReplaceNonAlnumRuns(
           RemoveQuotes(toLowerCase(trim(name))), FALSE), FALSE)),
         MaxFileNameBase)

\* the first 8 hex digits of the SHA-1 of the input, for the identifiers
\* and names the model uses
shortHash(input) ==
  CASE input = "w1" -> "2927b464"
    [] input = "Long Sword" -> "cd7a7e0f"
    [] input = "Acid Splash" -> "e04f5158"
    [] input = " Acid Splash" -> "90212f47"
    [] input = "r7" -> "daf1ccf0"
    [] input = "Ring of Power" -> "611ff7cf"

\* sanitizeFileName of the names of RunStrings, computed once
sanitized == [s \in RunStrings |-> sanitizeFileName(s)]

Sanitized(s) == IF s \in RunStrings THEN sanitized[s] ELSE sanitizeFileName(s)

stableIconFileName(d) ==
  LET base == Sanitized(d.name[1])
      suffix == shortHash(IF d.id # <<>> THEN d.id[1] ELSE d.name[1])
  IN  IF base # "" THEN base \o "-" \o suffix \o ".png" ELSE suffix \o ".png"

iconDir(kind) == "icons/generated/" \o kind

foundryImgPath(moduleId, kind, fileName) ==
  "modules/" \o moduleId \o "/" \o iconDir(kind) \o "/" \o fileName

\* relative to the repository root
localIconPath(kind, fileName) == iconDir(kind) \o "/" \o fileName

kindOf(d) == IF isSpell(d) THEN "spells" ELSE "items"

\* kind, fileName, iconDiskPath and iconFoundryPath of a record
Paths(moduleId, d) ==
  LET kind == kindOf(d)
      fileName == stableIconFileName(d)
  IN  [iconDiskPath |-> localIconPath(kind, fileName),
       iconFoundryPath |-> foundryImgPath(moduleId, kind, fileName),
       dir |-> iconDir(kind)]

(***************************************************************************)
(* SpecClassify: the classifier and the prompt builder applied to records  *)
(* drawn from a bounded set of names and types.                            *)
(***************************************************************************)
NamePrefixes == {"", "Rusty ", "Plate ", "Hooded ", "RING OF THE "}

NameBases ==
  {"Sword", "LONG SWORD", "Crossbow", "Buckler", "Shield", "Chainmail",
   "Helmet", "Cloak", "Cape", "Robe", "Boots", "Gauntlets", "Ring",
   "Amulet", "Staff", "Wand", "Wandering Staff", "Spellbook", "Scroll",
   "Elixir", "Lantern", "Weapon of the Adept", "Flamebound Weapon",
   "Robe of the Arcanist", "Cloak of Warding",
   "Grimoire of Practical Evocations", "Cloak of Shadows"}

ClassifyNames == {p \o b : p \in NamePrefixes, b \in NameBases}

ClassifyTypes ==
  {<<>>, <<"">>, <<"weapon">>, <<"Armor">>, <<"helm">>, <<"gloves">>,
   <<"equipment">>, <<"item">>, <<"spell">>, <<"Spell">>}

ClassifyDocs == {[name |-> <<n>>, type |-> t] : n \in ClassifyNames, t \in ClassifyTypes}

NotRun == [done |-> FALSE]

ClassifyIdle == doc = [name |-> <<>>, type |-> <<>>] /\ out = NotRun

PackIdle == text = <<>> /\ original = <<>> /\ step = "start" /\ loaded = NotRun

NoEnv == [LIMIT |-> [finite |-> FALSE], OVERWRITE |-> FALSE, DRYRUN |-> FALSE]

NoMain == [moduleId |-> "", packFiles |-> <<>>, f |-> 0,
           totalProcessed |-> 0, totalChanged |-> 0, code |-> 0, error |-> ""]

NoPack == [docs |-> <<>>, format |-> "ndjson", i |-> 0, processed |-> 0, changed |-> 0]

NoHist == [called |-> {}, wrote |-> {}, made |-> {}, saved |-> {}, examined |-> {},
           packs0 |-> <<>>, icons0 |-> {}, dirs0 |-> {}]

NoProof == [pc |-> "idle", moduleId |-> "", spells |-> <<>>, cantrips |-> <<>>,
            items |-> <<>>, k |-> 0, code |-> 0, error |-> ""]

DbIdle ==
  /\ env = NoEnv
  /\ manifest = [state |-> "missing"]
  /\ packs = [exists |-> FALSE, files |-> <<>>]
  /\ dirs = {}
  /\ icons = {}
  /\ pc = "idle"
  /\ main = NoMain
  /\ pack = NoPack
  /\ phase = "run"
  /\ hist = NoHist
  /\ proof = NoProof

InitClassify ==
  /\ doc \in ClassifyDocs
  /\ out = NotRun
  /\ PackIdle
  /\ DbIdle

Classify ==
  /\ out = NotRun
  /\ out' = [done |-> TRUE,
             kind |-> IF isSpell(doc) THEN "spells" ELSE "items",
             category |-> detectItemCategory(doc),
             prompt |-> buildPrompt(doc)]
  /\ UNCHANGED <<doc, packVars, dbVars, proof>>

NextClassify == Classify

SpecClassify == InitClassify /\ [][NextClassify]_vars

(***************************************************************************)
(* SpecPack: loadPackDocs followed by savePackDocs on every file content   *)
(* of at most MaxTextLen tokens.                                           *)
(***************************************************************************)
MaxTextLen == 4

AcidSplash == Record(<<"Acid Splash">>, <<"spell">>, <<>>, <<>>, "school:general")

PackAlphabet ==
  {LB, RB, COMMA, NL, CR, SP,
   Json(AcidSplash, TRUE), Json(AcidSplash, FALSE), Json(Null, TRUE)}

PackTexts == UNION {[1..n -> PackAlphabet] : n \in 0..MaxTextLen}

InitPack ==
  /\ text \in PackTexts
  /\ original = text
  /\ step = "start"
  /\ loaded = NotRun
  /\ ClassifyIdle
  /\ DbIdle

\* const { docs, format } = loadPackDocs(packFilePath)
LoadPack ==
  /\ step = "start"
  /\ loaded' = loadPackDocs(text)
  /\ step' = IF loaded'.ok THEN "loaded" ELSE "failed"
  /\ UNCHANGED <<text, original, classifyVars, dbVars, proof>>

\* savePackDocs(packFilePath, docs, format) with the records as loaded
SavePack ==
  /\ step = "loaded"
  /\ text' = savePackDocs(loaded.docs, loaded.format)
  /\ step' = "saved"
  /\ UNCHANGED <<original, loaded, classifyVars, dbVars, proof>>

NextPack == LoadPack \/ SavePack

SpecPack == InitPack /\ [][NextPack]_vars

(***************************************************************************)
(* generate-icons-db: configuration and the list of pack files             *)
(***************************************************************************)
\* process.env.LIMIT ? Number(process.env.LIMIT) : Infinity
Infinity == [finite |-> FALSE]
Finite(n) == [finite |-> TRUE, n |-> n]

\* processed > LIMIT, an off-by-one form of the limit test
AtLeast_OffByOne(processed, limit) == limit.finite /\ processed > limit.n

\* processed >= LIMIT
AtLeast(processed, limit) == limit.finite /\ processed >= limit.n

\* getModuleId() of a manifest that can be read: mj.id ?? mj.name ?? "module"
getModuleId(m) ==
  IF m.state = "missing" THEN "module"
  ELSE IF m.id # <<>> THEN m.id[1]
  ELSE IF m.name # <<>> THEN m.name[1]
  ELSE "module"

endsWith(s, suffix) ==
  /\ Len(s) >= Len(suffix)
  /\ SubSeq(s, Len(s) - Len(suffix) + 1, Len(s)) = suffix

\* a.localeCompare(b) < 0 for names of lower-case letters, digits and dots
Collation == ".0123456789abcdefghijklmnopqrstuvwxyz"
Weight(c) == CHOOSE i \in 1..Len(Collation) : CharAt(Collation, i) = c

RECURSIVE Before(_, _)
Before(a, b) ==
  IF a = "" THEN b # ""
  ELSE IF b = "" THEN FALSE
  ELSE IF CharAt(a, 1) = CharAt(b, 1)
    THEN Before(SubSeq(a, 2, Len(a)), SubSeq(b, 2, Len(b)))
  ELSE Weight(CharAt(a, 1)) < Weight(CharAt(b, 1))

RECURSIVE Sorted(_)
Sorted(names) ==
  IF names = {} THEN <<>>
  ELSE LET least == CHOOSE a \in names : \A b \in names \ {a} : Before(a, b)
       IN  <<least>> \o Sorted(names \ {least})

\* listPackFiles() when packs/ exists: the .db files, sorted by name
listPackFiles(files) ==
  Sorted({n \in DOMAIN files : endsWith(Lowered(n), ".db")})

(***************************************************************************)
(* SpecDb: a run of generate-icons-db and, after an aborted run, a rerun   *)
(* on the disk the aborted run left.                                       *)
(***************************************************************************)
MaxDocs == 2
MaxLimit == 1

Limits == {Infinity} \cup {Finite(n) : n \in 0..MaxLimit}

Environments ==
  {[LIMIT |-> l, OVERWRITE |-> o, DRYRUN |-> d] :
     l \in Limits, o \in BOOLEAN, d \in BOOLEAN}

Dbae == [state |-> "ok", id |-> <<"dbae">>, name |-> <<"Dragonbane">>]

OtherManifests ==
  {[state |-> "missing"], [state |-> "malformed"],
   [state |-> "ok", id |-> <<>>, name |-> <<"Dragonbane">>],
   [state |-> "ok", id |-> <<>>, name |-> <<>>]}

LongSword(img) == Record(<<"Long Sword">>, <<"weapon">>, <<"w1">>, img, "damage:d8")
AcidSplashOf(img) == Record(<<" Acid Splash">>, <<"Spell">>, <<>>, img, "school:general")

TargetImg(moduleId, d) == Paths(moduleId, d).iconFoundryPath
IconPath(d) == Paths("", d).iconDiskPath

\* the entries a data file of the model is made of: a non-record, and
\* records without img, with the target img, and with another img
Entries(moduleId) ==
  {Null,
   LongSword(<<>>),
   LongSword(<<TargetImg(moduleId, LongSword(<<>>))>>),
   AcidSplashOf(<<"icons/svg/item-bag.svg">>)}

EntryLists(moduleId, n) == UNION {[1..m -> Entries(moduleId)] : m \in 0..n}

\* the same entries as a file that was not written by savePackDocs: CR LF
\* line ends, texts that are not compact, no line end after the last line
RECURSIVE LooseLines(_)
LooseLines(docs) ==
  IF docs = <<>> THEN <<>>
  ELSE IF Len(docs) = 1 THEN <<Json(docs[1], FALSE)>>
  ELSE <<Json(docs[1], FALSE), CR, NL>> \o LooseLines(Tail(docs))

Contents(docs) ==
  {savePackDocs(docs, "array"), savePackDocs(docs, "ndjson"), LooseLines(docs)}

SpellsDb == savePackDocs(<<AcidSplashOf(<<>>)>>, "ndjson")

\* packs/: absent, or items.db beside a file that is no .db file, with or
\* without spells.db
PackDirs(moduleId, n) ==
  {[exists |-> FALSE, files |-> <<>>]} \cup
  {[exists |-> TRUE, files |-> ("items.db" :> c) @@ ("notes.txt" :> <<SP>>)] :
     c \in UNION {Contents(docs) : docs \in EntryLists(moduleId, n)}} \cup
  {[exists |-> TRUE,
    files |-> ("items.db" :> c) @@ ("notes.txt" :> <<SP>>) @@ ("spells.db" :> SpellsDb)] :
     c \in UNION {Contents(docs) : docs \in EntryLists(moduleId, n)}}

IconSets == SUBSET {IconPath(LongSword(<<>>))}

dirname(path) ==
  IF includes(path, iconDir("spells") \o "/") THEN iconDir("spells") ELSE iconDir("items")

\* the module id the records of the initial files were written for
WrittenFor(m) == IF m.state = "malformed" THEN "module" ELSE getModuleId(m)

\* every environment, manifest, icon set and pack directory, the files of
\* MaxDocs entries under the usual manifest and of one entry under the others
InitDb ==
  /\ env \in Environments
  /\ \/ /\ manifest = Dbae
        /\ packs \in PackDirs(WrittenFor(manifest), MaxDocs)
     \/ /\ manifest \in OtherManifests
        /\ packs \in PackDirs(WrittenFor(manifest), 1)
  /\ icons \in IconSets
  /\ dirs = {dirname(p) : p \in icons}
  /\ pc = "start"
  /\ main = NoMain
  /\ pack = NoPack
  /\ phase = "run"
  /\ hist = [NoHist EXCEPT !.packs0 = packs.files, !.icons0 = icons, !.dirs0 = dirs]
  /\ proof = NoProof
  /\ ClassifyIdle
  /\ PackIdle

Exit(code, error) ==
  /\ pc' = "exit"
  /\ main' = [main EXCEPT !.code = code, !.error = error]

\* main(): getModuleId(), listPackFiles(); either may throw
Start ==
  /\ pc = "start"
  /\ IF manifest.state = "malformed"
       THEN Exit(1, "SyntaxError in module.json")
     ELSE IF ~packs.exists
       THEN Exit(1, "packs/ not found")
     ELSE /\ pc' = "load"
          /\ main' = [NoMain EXCEPT !.moduleId = getModuleId(manifest),
                                    !.packFiles = listPackFiles(packs.files),
                                    !.f = 1]
  /\ UNCHANGED <<env, diskVars, pack, phase, hist, classifyVars, packVars, proof>>


CurrentFile == main.packFiles[main.f]
CurrentDoc == pack.docs[pack.i + 1]
Here == [phase |-> phase, file |-> CurrentFile, i |-> pack.i]

\* the for loop of processPackFile is at the top of an iteration it will run
InLoop ==
  /\ pc = "loop"
  /\ pack.i < Len(pack.docs)
  /\ ~AtLeast(pack.processed, env.LIMIT)

\* ensureDir(path.dirname(iconDiskPath)), and the iteration in the history
ensureDir(d) ==
  /\ dirs' = dirs \cup {d}
  /\ hist' = [hist EXCEPT
                !.examined = @ \cup {Here},
                !.made = IF d \in dirs THEN @ ELSE @ \cup {[phase |-> phase, dir |-> d]}]

\* alreadyOk that compares img with the path on disk, not the Foundry path
alreadyOk_DiskPath(d, p) ==
  /\ d.img = <<p.iconDiskPath>>
  /\ p.iconDiskPath \in icons

alreadyOk(d, p) ==
  /\ d.img = <<p.iconFoundryPath>>
  /\ p.iconDiskPath \in icons

\* for (const pf of packFiles): processPackFile starts with loadPackDocs
LoadPackFile ==
  /\ pc = "load"
  /\ main.f <= Len(main.packFiles)
  /\ LET r == loadPackDocs(packs.files[CurrentFile])
     IN  IF r.ok
           THEN /\ pc' = "loop"
                /\ pack' = [docs |-> r.docs, format |-> r.format, i |-> 0,
                            processed |-> 0, changed |-> 0]
                /\ main' = main
           ELSE /\ Exit(1, r.error)
                /\ pack' = pack
  /\ UNCHANGED <<env, diskVars, phase, hist, classifyVars, packVars, proof>>

\* if (!isLikelyDoc(doc)) continue;
SkipEntry ==
  /\ InLoop
  /\ ~isLikelyDoc(CurrentDoc)
  /\ pack' = [pack EXCEPT !.i = @ + 1]
  /\ hist' = [hist EXCEPT !.examined = @ \cup {Here}]
  /\ UNCHANGED <<env, diskVars, pc, main, phase, classifyVars, packVars, proof>>

\* if (alreadyOk && !OVERWRITE) { processed++; continue; }
SkipAlreadyOk ==
  /\ InLoop
  /\ isLikelyDoc(CurrentDoc)
  /\ LET p == Paths(main.moduleId, CurrentDoc)
     IN  /\ ensureDir(p.dir)
         /\ alreadyOk(CurrentDoc, p) /\ ~env.OVERWRITE
  /\ pack' = [pack EXCEPT !.i = @ + 1, !.processed = @ + 1]
  /\ UNCHANGED <<env, manifest, packs, icons, pc, main, phase, classifyVars, packVars, proof>>

\* DRYRUN: the prompt is built and logged, nothing is generated
DryRunRecord ==
  /\ InLoop
  /\ isLikelyDoc(CurrentDoc)
  /\ LET p == Paths(main.moduleId, CurrentDoc)
     IN  /\ ensureDir(p.dir)
         /\ ~(alreadyOk(CurrentDoc, p) /\ ~env.OVERWRITE)
  /\ env.DRYRUN
  /\ pack' = [pack EXCEPT !.i = @ + 1, !.processed = @ + 1]
  /\ UNCHANGED <<env, manifest, packs, icons, pc, main, phase, classifyVars, packVars, proof>>

\* const png = await generateWithA1111(prompt): the request is sent
RequestIcon ==
  /\ InLoop
  /\ isLikelyDoc(CurrentDoc)
  /\ ~env.DRYRUN
  /\ LET p == Paths(main.moduleId, CurrentDoc)
     IN  /\ ~(alreadyOk(CurrentDoc, p) /\ ~env.OVERWRITE)
         /\ dirs' = dirs \cup {p.dir}
         /\ hist' = [hist EXCEPT
                       !.examined = @ \cup {Here},
                       !.called = @ \cup {Here},
                       !.made = IF p.dir \in dirs THEN @
                                ELSE @ \cup {[phase |-> phase, dir |-> p.dir]}]
  /\ pc' = "await"
  /\ UNCHANGED <<env, manifest, packs, icons, main, pack, phase, classifyVars, packVars, proof>>

\* the generator answered with an image: the icon file is written and the
\* record updated
GeneratorReturns ==
  /\ pc = "await"
  /\ LET p == Paths(main.moduleId, CurrentDoc)
     IN  /\ icons' = icons \cup {p.iconDiskPath}
         /\ pack' = [pack EXCEPT !.docs[pack.i + 1].img = <<p.iconFoundryPath>>,
                                 !.changed = @ + 1,
                                 !.processed = @ + 1,
                                 !.i = @ + 1]
         /\ hist' = [hist EXCEPT
                       !.wrote = @ \cup {[phase |-> phase, file |-> CurrentFile,
                                          i |-> pack.i, path |-> p.iconDiskPath]}]
  /\ pc' = "loop"
  /\ UNCHANGED <<env, manifest, packs, dirs, main, phase, classifyVars, packVars, proof>>

GeneratorErrors == {"A1111 error 500", "A1111 returned no images."}

\* the status was not ok, or the answer held no image:
\* generateWithA1111 throws and main().catch exits with 1
GeneratorFails ==
  /\ pc = "await"
  /\ \E e \in GeneratorErrors : Exit(1, e)
  /\ UNCHANGED <<env, diskVars, pack, phase, hist, classifyVars, packVars, proof>>

\* the loop ended or hit the limit: the file is saved when a record changed
FinishPack ==
  /\ pc = "loop"
  /\ ~InLoop
  /\ IF ~env.DRYRUN /\ pack.changed > 0
       THEN /\ packs' = [packs EXCEPT
                           !.files[CurrentFile] = savePackDocs(pack.docs, pack.format)]
            /\ hist' = [hist EXCEPT !.saved = @ \cup {[phase |-> phase,
                                                      file |-> CurrentFile]}]
       ELSE UNCHANGED <<packs, hist>>
  /\ main' = [main EXCEPT !.f = @ + 1,
                          !.totalProcessed = @ + pack.processed,
                          !.totalChanged = @ + pack.changed]
  /\ pc' = "load"
  /\ UNCHANGED <<env, manifest, dirs, icons, pack, phase, classifyVars, packVars, proof>>

\* every pack file is done: main() returns and the process exits with 0
AllDone ==
  /\ pc = "load"
  /\ main.f > Len(main.packFiles)
  /\ Exit(0, "")
  /\ UNCHANGED <<env, diskVars, pack, phase, hist, classifyVars, packVars, proof>>

\* the operator runs the script again after a run that failed
Rerun ==
  /\ pc = "exit"
  /\ main.code = 1
  /\ phase = "run"
  /\ phase' = "rerun"
  /\ pc' = "start"
  /\ main' = NoMain
  /\ pack' = NoPack
  /\ UNCHANGED <<env, diskVars, hist, classifyVars, packVars, proof>>

NextDb ==
  \/ Start
  \/ LoadPackFile
  \/ SkipEntry
  \/ SkipAlreadyOk
  \/ DryRunRecord
  \/ RequestIcon
  \/ GeneratorReturns
  \/ GeneratorFails
  \/ FinishPack
  \/ AllDone
  \/ Rerun

SpecDb == InitDb /\ [][NextDb]_vars

(***************************************************************************)
(* generate-proof-icons                                                    *)
(***************************************************************************)
PROOF_SPELLS ==
  <<"Animal Whispers", "Beast Sense", "Acid Splash", "Barkskin", "Aid",
    "Cause Fear", "Bane", "Null Step", "Chill of Nothing",
    "Chronomage: Delay Harm">>

PROOF_ITEMS ==
  <<"Weapon of the Adept", "Flamebound Weapon", "Robe of the Arcanist",
    "Cloak of Warding", "Grimoire of Practical Evocations">>

\* .replace(/['...]/g, ""): the apostrophe (the other characters of the
\* class are not ASCII and occur in no name of the model)
RECURSIVE RemoveApostrophes(_)
RemoveApostrophes(s) ==
  IF s = "" THEN ""
  ELSE (IF CharAt(s, 1) = "'" THEN "" ELSE CharAt(s, 1))
         \o RemoveApostrophes(SubSeq(s, 2, Len(s)))

slugify(s) ==
  StripEdgeDashes(ReplaceNonAlnumRuns(RemoveApostrophes(toLowerCase(s)), FALSE))

\* String.prototype.split("\n")
RECURSIVE splitOnLineFeed(_, _)
splitOnLineFeed(s, cur) ==
  IF s = <<>> THEN <<cur>>
  ELSE IF Head(s) = NL THEN <<cur>> \o splitOnLineFeed(Tail(s), <<>>)
  ELSE splitOnLineFeed(Tail(s), Append(cur, Head(s)))

readNdjson(content) ==
  LET lines == trimmedNonEmpty(splitOnLineFeed(content, <<>>))
      parsed == [i \in 1..Len(lines) |-> JSONparse(lines[i])]
  IN  IF \E i \in 1..Len(lines) : ~parsed[i].ok
        THEN [ok |-> FALSE, error |-> "SyntaxError"]
        ELSE [ok |-> TRUE, docs |-> [i \in 1..Len(lines) |-> parsed[i].v]]

\* what writeNdjson writes
writeNdjson(docs) == StringifyLines(docs) \o <<NL>>

\* docs.find((d) => d?.name === name): the index of the first match, or 0
findDocByName(docs, name) ==
  LET hits == {i \in 1..Len(docs) : docs[i].k = "obj" /\ docs[i].name = <<name>>}
  IN  IF hits = {} THEN 0 ELSE CHOOSE i \in hits : \A j \in hits : i <= j

\* generate-icons-db's treatment of the manifest in generate-proof-icons
proofModuleId_Defaulting(m) ==
  IF m.state = "malformed" THEN [ok |-> FALSE, error |-> "SyntaxError"]
  ELSE [ok |-> TRUE, id |-> getModuleId(m)]

\* the checks of module.json at the start of generate-proof-icons:
\* the module id, or the message the script dies with
proofModuleId(m) ==
  IF m.state = "missing"
    THEN [ok |-> FALSE, error |-> "module.json not found in current directory."]
  ELSE IF m.state = "malformed" THEN [ok |-> FALSE, error |-> "SyntaxError"]
  ELSE IF m.id = <<>> \/ m.id = <<"">>
    THEN [ok |-> FALSE, error |-> "module.json missing id"]
  ELSE [ok |-> TRUE, id |-> m.id[1]]

\* if (!apiKey) die("Missing OPENAI_API_KEY env var.")
apiKeyMissing(e) == e.OPENAI_API_KEY = <<>> \/ e.OPENAI_API_KEY = <<"">>

ProofPacks == {"spells.db", "cantrips.db", "items.db"}

\* the three existsSync tests, in their order
FirstMissing(missing) ==
  IF "spells.db" \in missing THEN "spells.db"
  ELSE IF "cantrips.db" \in missing THEN "cantrips.db"
  ELSE "items.db"

(***************************************************************************)
(* SpecProof: a run of generate-proof-icons.                               *)
(***************************************************************************)
ProofManifests ==
  {[state |-> "missing"], [state |-> "malformed"],
   [state |-> "ok", id |-> <<"dbae">>, name |-> <<"Dragonbane">>],
   [state |-> "ok", id |-> <<>>, name |-> <<"Dragonbane">>],
   [state |-> "ok", id |-> <<"">>, name |-> <<"Dragonbane">>]}

ProofEnvironments ==
  {[OPENAI_API_KEY |-> k] : k \in {<<>>, <<"">>, <<"sk-test">>}}

Spell(name) == Record(<<name>>, <<"spell">>, <<>>, <<>>, "school:general")
Item(name) == Record(<<name>>, <<"item">>, <<>>, <<"icons/svg/item-bag.svg">>, "weight:1")

Absent == <<[t |-> "absent"]>>

SpellsContents ==
  {Absent, <<>>, <<COMMA>>,
   writeNdjson(<<Spell("Acid Splash")>>),
   LooseLines(<<Null, Spell("Aid"), Spell("Fireball")>>)}

CantripsContents ==
  {Absent, writeNdjson(<<Spell("Light")>>),
   writeNdjson(<<Spell("Acid Splash"), Spell("Bane")>>)}

ItemsContents ==
  {Absent, writeNdjson(<<Item("Lantern")>>),
   writeNdjson(<<Item("Weapon of the Adept"), Item("Cloak of Warding")>>)}

FileOf(name, content) == IF content = Absent THEN <<>> ELSE (name :> content)

InitProof ==
  /\ env \in ProofEnvironments
  /\ manifest \in ProofManifests
  /\ \E sp \in SpellsContents, ca \in CantripsContents, it \in ItemsContents :
       packs = [exists |-> TRUE,
                files |-> FileOf("spells.db", sp) @@ FileOf("cantrips.db", ca)
                            @@ FileOf("items.db", it)]
  /\ dirs \in {{}, {iconDir("spells"), iconDir("items")}}
  /\ icons = {}
  /\ pc = "idle"
  /\ main = NoMain
  /\ pack = NoPack
  /\ phase = "run"
  /\ hist = [NoHist EXCEPT !.packs0 = packs.files, !.icons0 = icons, !.dirs0 = dirs]
  /\ proof = [NoProof EXCEPT !.pc = "start"]
  /\ ClassifyIdle
  /\ PackIdle

\* die(msg), or an exception that reaches the final catch: exit code 1
ProofExit(code, error) ==
  proof' = [proof EXCEPT !.pc = "exit", !.code = code, !.error = error]

proofFrame == <<classifyVars, packVars, env, manifest, pc, main, pack, phase>>

\* from the start to the first loop: the manifest, the three packs, the
\* output directories
ProofStart ==
  /\ proof.pc = "start"
  /\ LET m == proofModuleId(manifest)
         missing == ProofPacks \ DOMAIN packs.files
     IN  IF ~m.ok THEN ProofExit(1, m.error) /\ UNCHANGED <<dirs, hist>>
         ELSE IF missing # {}
           THEN ProofExit(1, "packs/" \o FirstMissing(missing) \o " not found.")
                  /\ UNCHANGED <<dirs, hist>>
         ELSE LET spells == readNdjson(packs.files["spells.db"])
                  cantrips == readNdjson(packs.files["cantrips.db"])
                  items == readNdjson(packs.files["items.db"])
              IN  IF ~spells.ok \/ ~cantrips.ok \/ ~items.ok
                    THEN ProofExit(1, "SyntaxError") /\ UNCHANGED <<dirs, hist>>
                    ELSE /\ dirs' = dirs \cup {iconDir("spells"), iconDir("items")}
                         /\ hist' = [hist EXCEPT
                                       !.made = {iconDir("spells"), iconDir("items")} \ dirs]
                         /\ proof' = [proof EXCEPT !.pc = "spells", !.k = 1,
                                                   !.moduleId = m.id,
                                                   !.spells = spells.docs,
                                                   !.cantrips = cantrips.docs,
                                                   !.items = items.docs]
  /\ UNCHANGED <<packs, icons, proofFrame>>

\* one iteration of a loop up to its await: the record is looked up; if it
\* is found generateImagePng checks the key and sends the request
ProofLookup(list, first, second, awaiting) ==
  LET name == list[proof.k]
  IN  IF findDocByName(first, name) = 0 /\ findDocByName(second, name) = 0
        THEN proof' = [proof EXCEPT !.k = @ + 1] /\ UNCHANGED hist
      ELSE IF apiKeyMissing(env)
        THEN ProofExit(1, "Missing OPENAI_API_KEY env var.") /\ UNCHANGED hist
      ELSE /\ proof' = [proof EXCEPT !.pc = awaiting]
           /\ hist' = [hist EXCEPT !.called = @ \cup {name}]

ProofSpell ==
  /\ proof.pc = "spells"
  /\ proof.k <= Len(PROOF_SPELLS)
  /\ ProofLookup(PROOF_SPELLS, proof.spells, proof.cantrips, "awaitSpell")
  /\ UNCHANGED <<packs, dirs, icons, proofFrame>>

ProofSpellsDone ==
  /\ proof.pc = "spells"
  /\ proof.k > Len(PROOF_SPELLS)
  /\ proof' = [proof EXCEPT !.pc = "items", !.k = 1]
  /\ UNCHANGED <<packs, dirs, icons, hist, proofFrame>>

ProofItem ==
  /\ proof.pc = "items"
  /\ proof.k <= Len(PROOF_ITEMS)
  /\ ProofLookup(PROOF_ITEMS, proof.items, <<>>, "awaitItem")
  /\ UNCHANGED <<packs, dirs, icons, proofFrame>>

ProofImg(kind, name) ==
  [fileRel |-> iconDir(kind) \o "/" \o slugify(name) \o ".png",
   img |-> "modules/" \o proof.moduleId \o "/" \o iconDir(kind) \o "/"
             \o slugify(name) \o ".png"]

\* the image arrived: the file is written, doc.img set, then sleep(450)
ProofSpellReturns ==
  /\ proof.pc = "awaitSpell"
  /\ LET name == PROOF_SPELLS[proof.k]
         p == ProofImg("spells", name)
         i == findDocByName(proof.spells, name)
         j == findDocByName(proof.cantrips, name)
     IN  /\ icons' = icons \cup {p.fileRel}
         /\ hist' = [hist EXCEPT !.wrote = @ \cup {p.fileRel}]
         /\ proof' = IF i # 0
                       THEN [proof EXCEPT !.spells[i].img = <<p.img>>,
                                          !.pc = "spells", !.k = @ + 1]
                       ELSE [proof EXCEPT !.cantrips[j].img = <<p.img>>,
                                          !.pc = "spells", !.k = @ + 1]
  /\ UNCHANGED <<packs, dirs, proofFrame>>

ProofItemReturns ==
  /\ proof.pc = "awaitItem"
  /\ LET name == PROOF_ITEMS[proof.k]
         p == ProofImg("items", name)
         i == findDocByName(proof.items, name)
     IN  /\ icons' = icons \cup {p.fileRel}
         /\ hist' = [hist EXCEPT !.wrote = @ \cup {p.fileRel}]
         /\ proof' = [proof EXCEPT !.items[i].img = <<p.img>>,
                                   !.pc = "items", !.k = @ + 1]
  /\ UNCHANGED <<packs, dirs, proofFrame>>

ImagesApiErrors == {"Images API error 500", "No b64_json returned from images API."}

ProofGeneratorFails ==
  /\ proof.pc \in {"awaitSpell", "awaitItem"}
  /\ \E e \in ImagesApiErrors : ProofExit(1, e)
  /\ UNCHANGED <<packs, dirs, icons, hist, proofFrame>>

\* both loops are done: the three packs are written back
ProofWriteBack ==
  /\ proof.pc = "items"
  /\ proof.k > Len(PROOF_ITEMS)
  /\ packs' = [packs EXCEPT !.files["spells.db"] = writeNdjson(proof.spells),
                            !.files["cantrips.db"] = writeNdjson(proof.cantrips),
                            !.files["items.db"] = writeNdjson(proof.items)]
  /\ hist' = [hist EXCEPT !.saved = ProofPacks]
  /\ ProofExit(0, "")
  /\ UNCHANGED <<dirs, icons, proofFrame>>

NextProof ==
  \/ ProofStart
  \/ ProofSpell
  \/ ProofSpellsDone
  \/ ProofItem
  \/ ProofSpellReturns
  \/ ProofItemReturns
  \/ ProofGeneratorFails
  \/ ProofWriteBack

SpecProof == InitProof /\ [][NextProof]_vars

(***************************************************************************)
(* SpecScripts: a run of either script.                                    *)
(***************************************************************************)
InitScripts == InitDb \/ InitProof

NextScripts == NextDb \/ NextProof

SpecScripts == InitScripts /\ [][NextScripts]_vars


(***************************************************************************)
(* Claims about configuration errors, in a run of either script            *)
(***************************************************************************)
DbRun == proof.pc = "idle"

ProofRun == pc = "idle"

\* the manifest is missing or has no identifier
NoIdentifier ==
  \/ manifest.state = "missing"
  \/ manifest.state = "ok" /\ (manifest.id = <<>> \/ (ProofRun /\ manifest.id = <<"">>))

KeyMissing == ProofRun /\ env.OPENAI_API_KEY \in {<<>>, <<"">>}

Ended == pc = "exit" \/ proof.pc = "exit"

ExitCode == IF DbRun THEN main.code ELSE proof.code

NothingWritten ==
  /\ dirs = hist.dirs0
  /\ icons = hist.icons0
  /\ packs.files = hist.packs0

NothingProcessed == hist.called = {} /\ hist.examined = {}

\* a name of the proof lists is the name of a record of the pack(s) the
\* list is looked up in
ListedRecordFound ==
  \/ \E k \in 1..Len(PROOF_SPELLS) :
       \E i \in 1..Len(proof.spells \o proof.cantrips) :
         LET d == (proof.spells \o proof.cantrips)[i]
         IN  d.k = "obj" /\ d.name = <<PROOF_SPELLS[k]>>
  \/ \E k \in 1..Len(PROOF_ITEMS) :
       \E i \in 1..Len(proof.items) :
         proof.items[i].k = "obj" /\ proof.items[i].name = <<PROOF_ITEMS[k]>>

\* C7 as stated: a configuration error (the manifest is missing or has no
\* identifier, in either script; the API key is missing, in
\* generate-proof-icons) aborts the run before any processing: no record is
\* processed, no directory or file is written, no data file is rewritten,
\* and the process ends with a non-zero exit.
C7_Original ==
  (NoIdentifier \/ KeyMissing) =>
    /\ NothingProcessed
    /\ NothingWritten
    /\ Ended => ExitCode # 0

\* the module id generate-icons-db falls back to
DefaultModuleId ==
  IF manifest.state = "ok" /\ manifest.name # <<>> THEN manifest.name[1] ELSE "module"

\* C7: in generate-proof-icons a missing manifest or a manifest without an
\* identifier is fatal before anything is read or written (exit 1).  A
\* missing API key is detected only at the first generator call, after the
\* output directories were created: no request is sent, no icon and no data
\* file is written, and the run exits 1 exactly when a listed record is
\* found; otherwise the key is never looked at, the packs are rewritten and
\* the run exits 0.  In generate-icons-db a missing manifest or identifier is
\* not an error: the module id defaults to the manifest's name or to
\* "module", and the run stops with exit 1 only for another reason.
C7_ConfigurationErrors ==
  /\ (ProofRun /\ NoIdentifier) =>
       /\ proof.pc \in {"start", "exit"}
       /\ NothingProcessed
       /\ NothingWritten
       /\ proof.pc = "exit" =>
            /\ proof.code = 1
            /\ proof.error \in {"module.json not found in current directory.",
                                "module.json missing id"}
  /\ (KeyMissing /\ ~NoIdentifier) =>
       /\ hist.called = {}
       /\ icons = hist.icons0
       /\ proof.error = "Missing OPENAI_API_KEY env var." =>
            /\ proof.pc = "exit" /\ proof.code = 1
            /\ ListedRecordFound
            /\ packs.files = hist.packs0
            /\ dirs = hist.dirs0 \cup {iconDir("spells"), iconDir("items")}
       /\ (proof.pc = "exit" /\ proof.code = 0) =>
            /\ ~ListedRecordFound
            /\ hist.saved = ProofPacks
       /\ (proof.pc = "exit" /\ ListedRecordFound) => proof.code = 1
  /\ (DbRun /\ NoIdentifier /\ pc \notin {"start", "exit"}) =>
       main.moduleId = DefaultModuleId
  /\ (DbRun /\ NoIdentifier /\ pc = "exit" /\ main.code = 1) =>
       \/ ~packs.exists
       \/ main.error \in GeneratorErrors
       \/ ~loadPackDocs(packs.files[CurrentFile]).ok

\* a run of generate-proof-icons that found the key missing at its first
\* generator call, after it created the output directories
C7_Witness ==
  /\ ProofRun
  /\ proof.pc = "exit"
  /\ proof.error = "Missing OPENAI_API_KEY env var."
  /\ hist.made = {iconDir("spells"), iconDir("items")}
  /\ dirs # hist.dirs0


(***************************************************************************)
(* Claims about a run of generate-icons-db (SpecDb).                       *)
(***************************************************************************)
Docs0(file) == loadPackDocs(hist.packs0[file]).docs
DocsNow(file) == loadPackDocs(packs.files[file]).docs
CallsOf(ph, file) == {c \in hist.called : c.phase = ph /\ c.file = file}
ExaminedOf(ph, file) == {e \in hist.examined : e.phase = ph /\ e.file = file}

\* the record's img is its target path and its icon file is on disk
UpToDate(d) ==
  /\ d.img = <<foundryImgPath(main.moduleId, kindOf(d), stableIconFileName(d))>>
  /\ localIconPath(kindOf(d), stableIconFileName(d)) \in icons

\* every record of the file was up to date on the disk the first run found
AllUpToDateAtStart(moduleId, file) ==
  \A i \in 1..Len(Docs0(file)) :
    LET d == Docs0(file)[i]
    IN  isLikelyDoc(d) =>
          /\ d.img = <<foundryImgPath(moduleId, kindOf(d), stableIconFileName(d))>>
          /\ localIconPath(kindOf(d), stableIconFileName(d)) \in hist.icons0

\* C1: with OVERWRITE unset, the iteration on a record whose img is its
\* target path and whose icon file exists issues no generator call, writes
\* no icon file, creates nothing, leaves the record and the data files as
\* they are; and a file all of whose records are in that state is not
\* rewritten.
C1_UpToDateRecordUntouched ==
  /\ [][(InLoop /\ isLikelyDoc(CurrentDoc) /\ UpToDate(CurrentDoc) /\ ~env.OVERWRITE)
          => /\ hist'.called = hist.called
             /\ hist'.wrote = hist.wrote
             /\ hist'.saved = hist.saved
             /\ icons' = icons
             /\ dirs' = dirs
             /\ packs' = packs
             /\ pack'.docs = pack.docs
             /\ pack'.changed = pack.changed
             /\ pc' = "loop"]_vars
  /\ [](~env.OVERWRITE =>
          \A s \in hist.saved :
            s.phase = "run" => ~AllUpToDateAtStart(main.moduleId, s.file))

\* C1 witness: a run without OVERWRITE ended after examining an up-to-date
\* record of items.db, without any call, write or save
C1_Witness ==
  /\ pc = "exit" /\ main.code = 0 /\ phase = "run"
  /\ ~env.OVERWRITE /\ ~env.DRYRUN
  /\ hist.called = {} /\ hist.saved = {} /\ hist.wrote = {}
  /\ \E e \in ExaminedOf("run", "items.db") :
       /\ isLikelyDoc(Docs0("items.db")[e.i + 1])
       /\ UpToDate(Docs0("items.db")[e.i + 1])

\* C2: with DRYRUN set, in every state of a run: no generator call, no icon
\* file written, nothing created under icons/generated, no record's img
\* changed, no data file rewritten.
C2_DryRunWritesNothing ==
  env.DRYRUN =>
    /\ hist.called = {}
    /\ hist.wrote = {}
    /\ hist.saved = {}
    /\ icons = hist.icons0
    /\ dirs = hist.dirs0
    /\ hist.made = {}
    /\ packs.files = hist.packs0
    /\ pc = "loop" => pack.docs = DocsNow(CurrentFile)

\* the run was aborted by the generator
AbortedByGenerator == pc = "exit" /\ main.code = 1 /\ main.error \in GeneratorErrors

\* C5: when the generator call fails, the run stops at once (nothing later
\* is examined or requested), and the icon files and the img updates of the
\* earlier iterations are on disk after the abort.
C5_AbortKeepsEarlierWork ==
  (phase = "run" /\ AbortedByGenerator) =>
    \A w \in hist.wrote :
      /\ w.path \in icons
      /\ DocsNow(w.file)[w.i + 1].img =
           <<foundryImgPath(main.moduleId, kindOf(Docs0(w.file)[w.i + 1]),
                            stableIconFileName(Docs0(w.file)[w.i + 1]))>>

\* C6: in the rerun after an aborted run, with OVERWRITE unset, no generator
\* call is issued for a record whose icon file the aborted run wrote.
C6_RerunSkipsWrittenIcons ==
  (phase = "rerun" /\ ~env.OVERWRITE) =>
    \A w \in hist.wrote :
      w.phase = "run" => [phase |-> "rerun", file |-> w.file, i |-> w.i] \notin hist.called

SameButImg(a, b) ==
  /\ a.k = b.k
  /\ IF a.k = "obj"
       THEN /\ a.name = b.name /\ a.type = b.type
            /\ a.id = b.id /\ a.system = b.system
       ELSE a = b

\* C8: the only change a run makes to the data files is the img of records
\* it generated an icon for: every file keeps its format, its number of
\* entries and their order, entries that are not records are as they were,
\* and every other field of every record is unchanged.
C8_OnlyImgChanges ==
  /\ DOMAIN packs.files = DOMAIN hist.packs0
  /\ \A f \in DOMAIN packs.files :
       LET was == loadPackDocs(hist.packs0[f])
           now == loadPackDocs(packs.files[f])
       IN  /\ (\A s \in hist.saved : s.file # f) => packs.files[f] = hist.packs0[f]
           /\ (\E s \in hist.saved : s.file = f) =>
                /\ was.ok /\ now.ok
                /\ now.format = was.format
                /\ Len(now.docs) = Len(was.docs)
                /\ \A i \in 1..Len(was.docs) :
                     /\ SameButImg(now.docs[i], was.docs[i])
                     /\ ~isLikelyDoc(was.docs[i]) => now.docs[i] = was.docs[i]
                     /\ now.docs[i] # was.docs[i] =>
                          \E w \in hist.wrote : w.file = f /\ w.i = i - 1

\* C8 witness: a file that was not in the writer's style, holding an entry
\* that is no record, was rewritten with a record's img changed
C8_Witness ==
  /\ pc = "exit" /\ main.code = 0
  /\ [phase |-> "run", file |-> "items.db"] \in hist.saved
  /\ hist.packs0["items.db"] = LooseLines(Docs0("items.db"))
  /\ Len(Docs0("items.db")) = 2
  /\ Docs0("items.db")[1] = Null
  /\ DocsNow("items.db")[2] # Docs0("items.db")[2]

\* the records of the file counted as processed so far in the current run
Counted(file) ==
  {e \in ExaminedOf(phase, file) : isLikelyDoc(Docs0(file)[e.i + 1])}

\* C10: with a finite LIMIT = n, per file and run: processed never exceeds
\* n, at most n generator calls are issued, no entry after the n-th counted
\* record is examined or changed; processed counts exactly the records
\* examined (skipped as up to date or not), never the entries that are no
\* records.
C10_LimitStopsIteration ==
  env.LIMIT.finite =>
    /\ pack.processed <= env.LIMIT.n
    /\ \A f \in DOMAIN hist.packs0 :
         /\ Cardinality(CallsOf(phase, f)) <= env.LIMIT.n
         /\ Cardinality(Counted(f)) <= env.LIMIT.n
         /\ \A e \in ExaminedOf(phase, f) :
              Cardinality({c \in Counted(f) : c.i < e.i}) < env.LIMIT.n
         /\ \A w \in hist.wrote :
              (w.phase = phase /\ w.file = f) =>
                [phase |-> phase, file |-> f, i |-> w.i] \in hist.examined
    /\ pc \in {"loop", "await"} =>
         pack.processed + (IF pc = "await" THEN 1 ELSE 0)
           = Cardinality(Counted(CurrentFile))

\* C10 witness: with LIMIT=1 a file of an up-to-date record followed by
\* another record was finished after the first was counted and skipped,
\* the second never examined
C10_Witness ==
  /\ env.LIMIT = Finite(1) /\ ~env.OVERWRITE /\ ~env.DRYRUN
  /\ pc = "exit" /\ main.code = 0 /\ phase = "run"
  /\ Len(Docs0("items.db")) = 2
  /\ isLikelyDoc(Docs0("items.db")[1]) /\ isLikelyDoc(Docs0("items.db")[2])
  /\ ExaminedOf("run", "items.db") = {[phase |-> "run", file |-> "items.db", i |-> 0]}
  /\ CallsOf("run", "items.db") = {}
  /\ DocsNow("items.db")[2].img = <<>>


(***************************************************************************)
(* Claims about the loader and the writer (SpecPack).                      *)
(***************************************************************************)
NoWhiteSpace(s) == \A i \in 1..Len(s) : ~IsWs(s[i])

AllCompact(s) == \A i \in 1..Len(s) : s[i].t = "json" => s[i].compact

\* a file in the writer's own style: compact JSON texts, a compact array
\* followed by one line feed, or one value per line, each line ended by
\* one line feed, no blank line, no carriage return, no other white space
CompactArrayStyle(s) ==
  /\ s # <<>>
  /\ s[Len(s)] = NL
  /\ NoWhiteSpace(SubSeq(s, 1, Len(s) - 1))
  /\ AllCompact(s)

CompactLinesStyle(s) ==
  /\ s # <<>>
  /\ s[Len(s)] = NL
  /\ \A i \in 1..Len(s) : s[i] \notin {CR, SP}
  /\ \A i \in 1..(Len(s) - 1) : ~(s[i] = NL /\ s[i + 1] = NL)
  /\ s[1] = NL => s = <<NL>>
  /\ AllCompact(s)

WriterStyle(s) ==
  LET raw == trimText(s)
  IN  IF raw # <<>> /\ Head(raw) = LB THEN CompactArrayStyle(s) ELSE CompactLinesStyle(s)

\* C3 (as written): load followed by save with no mutation writes output
\* byte-equivalent to the original content, for every file that loads.
C3_Original == (step = "saved" /\ trimText(original) # <<>>) => text = original

\* C3 (amended): load followed by save with no mutation writes the same
\* entries in the same order in the same serialization style (array stays
\* array, line-delimited stays line-delimited), in compact form; the output
\* is byte-equivalent to the original exactly when the original is already
\* in the writer's compact style.
C3_RoundTrip ==
  step = "saved" =>
    /\ loadPackDocs(text).ok
    /\ loadPackDocs(text).docs = loaded.docs
    /\ loadPackDocs(text).format = loaded.format
    /\ (Head(text) = LB) <=> (loaded.format = "array")
    /\ WriterStyle(text)
    /\ (text = original) <=> WriterStyle(original)

\* C3 witness: a two-record line-delimited file was written back byte for byte
C3_Witness ==
  /\ step = "saved"
  /\ loaded.format = "ndjson"
  /\ Len(loaded.docs) = 2
  /\ text = original


(***************************************************************************)
(* Claims about the classifier and the prompt builder (SpecClassify).      *)
(***************************************************************************)
\* the resolution order as the specification words it: category and keywords
ClaimedOrder ==
  <<[cat |-> "weapon", words |-> WeaponWords],
    [cat |-> "shield", words |-> ShieldWords],
    [cat |-> "armor",  words |-> ArmorWords],
    [cat |-> "helmet", words |-> HelmetWords],
    [cat |-> "cloak",  words |-> CloakWords],
    [cat |-> "robe",   words |-> RobeWords],
    [cat |-> "boots",  words |-> BootsWords],
    [cat |-> "gloves", words |-> GlovesWords],
    [cat |-> "ring",   words |-> RingWords],
    [cat |-> "amulet", words |-> AmuletWords],
    [cat |-> "staff",  words |-> StaffWords],
    [cat |-> "wand",   words |-> WandWords],
    [cat |-> "book",   words |-> BookWords],
    [cat |-> "scroll", words |-> ScrollWords],
    [cat |-> "potion", words |-> PotionWords]>>

Matching(n) == {i \in 1..Len(ClaimedOrder) : test(ClaimedOrder[i].words, n)}

FirstMatch(n) ==
  IF Matching(n) = {} THEN "item"
  ELSE ClaimedOrder[CHOOSE i \in Matching(n) : \A j \in Matching(n) : i <= j].cat

\* C4: the record {"name":"Weapon of the Adept"} (no type) is classified
\* "weapon" and its prompt contains
\* "single weapon on parchment background, Weapon of the Adept".
C4_WeaponOfTheAdept ==
  (out.done /\ doc = [name |-> <<"Weapon of the Adept">>, type |-> <<>>])
    => /\ out.category = "weapon"
       /\ includes(out.prompt,
                   "single weapon on parchment background, Weapon of the Adept")

\* C9 (as written): for every non-spell record, (a) a non-empty type that is
\* a member of the known-subtype set is the category whatever the name; (b)
\* otherwise the first name pattern that matches, in the fixed order, tested
\* case-insensitively, decides; (c) otherwise the category is "item".
C9_Original ==
  (out.done /\ ~isSpell(doc))
    => LET t == OrElse(doc.type, "")
           n == toLowerCase(OrElse(doc.name, ""))
       IN  out.category = IF t # "" /\ t \in KnownSubtypes THEN t ELSE FirstMatch(n)

\* C9 (amended): as C9, with the type compared case-insensitively: when the
\* lower-cased type is in the known-subtype set the category is the
\* lower-cased type; a name containing "sword" (any case) with no recognized
\* type gives "weapon".
C9_CategoryResolution ==
  (out.done /\ ~isSpell(doc))
    => LET t == toLowerCase(OrElse(doc.type, ""))
           n == toLowerCase(OrElse(doc.name, ""))
       IN  /\ out.category = IF t # "" /\ t \in KnownSubtypes THEN t ELSE FirstMatch(n)
           /\ (includes(n, "sword") /\ t \notin KnownSubtypes) => out.category = "weapon"

\* C9 witness: a record of type "Armor" named after a sword was classified
\* by its type, and one with no recognized type by the first matching pattern
C9_Witness ==
  /\ out.done
  /\ doc.type = <<"Armor">>
  /\ doc.name = <<"Plate LONG SWORD">>
  /\ out.category = "armor"

=============================================================================
